---- MODULE Spec2Model ----
(***************************************************************************)
(* A model of the cache engine of dgraph-io/caffiene:                      *)
(*   - the hash map (src/store.go), alone under its RWMutex and inside the *)
(*     sharded, conflict-checking store (exercised by                      *)
(*     src/unnamed/part_000),                                              *)
(*   - the Cache coordinator (src/cache.go) with its admission policy, and *)
(*     its constructor NewCache,                                           *)
(*   - the expiration map (src/unnamed/part_001),                          *)
(*   - the SuperFlag option parser (src/cache.go:115-273).                 *)
(* The policy (policy.Add / Del / Res) and the sharded store's operations  *)
(* that take a conflict are not among the sources; they are modelled from  *)
(* spec.md sections 4.3 and 4.5.                                           *)
(***************************************************************************)
EXTENDS Integers, Sequences, FiniteSets, TLC

(***************************************************************************)
(* Bounds of the model.                                                    *)
(***************************************************************************)
\* conflict hashes are 0..MaxConflict
MaxConflict == 2
\* the clock runs over 0..MaxTime
MaxTime == 2
\* Config.MaxCost of the modelled cache
MaxCost == 2
\* Config.NumCounters of the modelled cache (Cache.size)
NumCounters == 2
\* frequency estimates of the sketch are 0..MaxEst
MaxEst == 1
\* no Set is started once Cache.used has reached MaxUsed
MaxUsed == 4
\* the wall clock of the expiration map runs over 0..MaxSec seconds
MaxSec == 68
\* the counts of a Config handed to NewCache are 0..MaxConfig
MaxConfig == 3
\* a flag has up to MaxEntries entries
MaxEntries == 2
\* the expiration map used concurrently sees up to MaxAdds calls of Add
MaxAdds == 3
\* and a clock over 0..MaxSweepSec seconds
MaxSweepSec == 10

\* Go's nil
Nil == 0
\* values are opaque to the cache: two distinct ones
Values == {1, 2}
Conflicts == 0..MaxConflict
Times == 0..MaxTime
\* the zero time.Time: "never expires"
NoExpiration == 0

(***************************************************************************)
(* The hash map of src/store.go: lockedMap.data, a Go map.  A map is a     *)
(* function whose domain is the set of keys present.                       *)
(***************************************************************************)
newLockedMap == [k \in {} |-> Nil]

\* m.data[key]: the zero value (nil) when the key is absent
lockedMapGet(m, key) == IF key \in DOMAIN m THEN m[key] ELSE Nil

\* a Set that keeps an entry already present (insert-if-absent)
lockedMapSetIfAbsent(m, key, value) ==
    IF key \in DOMAIN m THEN m
    ELSE [k \in DOMAIN m \cup {key} |-> IF k = key THEN value ELSE m[k]]

\* a Set that drops every other entry of the map
lockedMapSetOnly(m, key, value) == [k \in {key} |-> value]

\* m.data[key] = value
lockedMapSet(m, key, value) ==
    [k \in DOMAIN m \cup {key} |-> IF k = key THEN value ELSE m[k]]

\* a Del that leaves the entry in the map
lockedMapDelKeep(m, key) == m

\* delete(m.data, key)
lockedMapDel(m, key) == [k \in DOMAIN m \ {key} |-> m[k]]

(***************************************************************************)
(* The sharded store: numShards lockedMaps of storeItems, shard index      *)
(* key & 0xFF.  Operations take the key and its conflict hash.             *)
(***************************************************************************)
numShards == 256
StoreKeys == {1, 257}
shardOf(key) == key % numShards
ShardIdx == {shardOf(k) : k \in StoreKeys}

\* an expiration is "never" or an instant before the end of the clock
Expirations == 0..(MaxTime - 1)
\* the Item handed to Set / Update
Items == [key : StoreKeys, conflict : Conflicts, value : Values,
          expiration : Expirations]
\* an Item is made with no expiration or with one still ahead
fresh(i, t) == i.expiration = NoExpiration \/ i.expiration > t
storeItem(i) == [key |-> i.key, conflict |-> i.conflict, value |-> i.value,
                 expiration |-> i.expiration]

newShardedMap == [s \in ShardIdx |-> newLockedMap]

isExpired(it, t) == it.expiration # NoExpiration /\ t > it.expiration

\* a get that does not compare the conflict
shardedGetNoGuard(s, key, conflict, t) ==
    LET m == s[shardOf(key)] IN
    IF key \notin DOMAIN m THEN <<Nil, FALSE>>
    ELSE IF isExpired(m[key], t) THEN <<Nil, FALSE>>
    ELSE <<m[key].value, TRUE>>

\* get(key, conflict) -> <<value, found>>: a miss when the key is absent, held
\* under another conflict, or expired
shardedGet(s, key, conflict, t) ==
    LET m == s[shardOf(key)] IN
    IF key \notin DOMAIN m THEN <<Nil, FALSE>>
    ELSE IF m[key].conflict # conflict THEN <<Nil, FALSE>>
    ELSE IF isExpired(m[key], t) THEN <<Nil, FALSE>>
    ELSE <<m[key].value, TRUE>>

\* set(item): the shard's lockedMap.Set
shardedSet(s, i) ==
    [s EXCEPT ![shardOf(i.key)] = lockedMapSet(@, i.key, storeItem(i))]

\* an update that writes whatever is held
shardedUpdateUpsert(s, i) == <<shardedSet(s, i), TRUE>>

\* an update that reports the match but does not write
shardedUpdateNoWrite(s, i) ==
    LET m == s[shardOf(i.key)] IN
    IF i.key \notin DOMAIN m THEN <<s, FALSE>>
    ELSE IF m[i.key].conflict # i.conflict THEN <<s, FALSE>>
    ELSE <<s, TRUE>>

\* update(item) -> <<store, updated>>: writes only if the key is held under the
\* item's conflict
shardedUpdate(s, i) ==
    LET m == s[shardOf(i.key)] IN
    IF i.key \notin DOMAIN m THEN <<s, FALSE>>
    ELSE IF m[i.key].conflict # i.conflict THEN <<s, FALSE>>
    ELSE <<shardedSet(s, i), TRUE>>

\* del(key, conflict) -> <<store, conflict_stored, value>>: conflict 0 deletes
\* whatever is held, another conflict only the item held under it
shardedDel(s, key, conflict) ==
    LET m == s[shardOf(key)] IN
    IF key \notin DOMAIN m THEN <<s, 0, Nil>>
    ELSE IF conflict # 0 /\ m[key].conflict # conflict THEN <<s, 0, Nil>>
    ELSE <<[s EXCEPT ![shardOf(key)] = lockedMapDel(@, key)],
           m[key].conflict, m[key].value>>

\* a clear that leaves every shard's map as it is
shardedClearKeep(s) == s

\* clear(): every shard's map replaced by an empty one
shardedClear(s) == [x \in DOMAIN s |-> newLockedMap]

\* how a key and conflict meet the store: the key is absent, held under another
\* conflict, or held under this conflict
caseOf(s, key, conflict) ==
    LET m == s[shardOf(key)] IN
    IF key \notin DOMAIN m THEN "absent"
    ELSE IF m[key].conflict # conflict THEN "collide"
    ELSE "same"

\* the storeItem held under key (only where the key is present)
held(s, key) == s[shardOf(key)][key]

(***************************************************************************)
(* The admission policy: the policy map (key -> cost), used (the sum of    *)
(* the costs) and maxCost.  The frequency sketch and the doorkeeper are    *)
(* represented by the estimates they produce: an Add sees some estimate    *)
(* est[k] in 0..MaxEst for every key.                                      *)
(***************************************************************************)
CacheKeys == {"a", "b"}
Costs == 0..(MaxCost + 1)
Estimates == [CacheKeys -> 0..MaxEst]

\* victims are drawn from a sample of this many entries of the policy map
sampleSize == 5

SumCosts(pm) ==
    LET RECURSIVE sum(_)
        sum(S) == IF S = {} THEN 0
                  ELSE LET k == CHOOSE x \in S : TRUE IN pm[k] + sum(S \ {k})
    IN sum(DOMAIN pm)

minOf(a, b) == IF a < b THEN a ELSE b

\* the samples that may be drawn from the policy map
Samples(pm) ==
    {S \in SUBSET DOMAIN pm :
        Cardinality(S) = minOf(sampleSize, Cardinality(DOMAIN pm))}

\* the keys that may come out as the victim: in some sample, of the lowest
\* estimate there (which of several lowest is met first depends on the draw)
Candidates(pm, est) ==
    {k \in DOMAIN pm :
        \E S \in Samples(pm) : k \in S /\ \A j \in S : est[k] <= est[j]}

\* evict sampled victims until used <= limit: the possible results
RECURSIVE evictUntil(_, _, _, _, _)
evictUntil(pm, u, limit, est, victims) ==
    IF u <= limit \/ DOMAIN pm = {}
    THEN {[pmap |-> pm, used |-> u, victims |-> victims]}
    ELSE UNION {evictUntil(lockedMapDel(pm, k), u - pm[k], limit, est,
                           Append(victims, k)) : k \in Candidates(pm, est)}

\* an add that admits whenever the cost alone fits, whatever is in use
policyAddNoRoomCheck(pm, u, key, cost, est) ==
    IF cost > MaxCost
    THEN {[pmap |-> pm, used |-> u, victims |-> <<>>, added |-> FALSE]}
    ELSE {[pmap |-> lockedMapSet(pm, key, cost),
           used |-> u - lockedMapGet(pm, key) + cost,
           victims |-> <<>>, added |-> TRUE]}

\* add(key, cost) -> (victims, added): the possible results
policyAdd(pm, u, key, cost, est) ==
    IF key \in DOMAIN pm
    THEN \* 1. already in the policy map: update the cost, evict if used > maxCost
         {[pmap |-> r.pmap, used |-> r.used, victims |-> r.victims, added |-> TRUE] :
            r \in evictUntil([pm EXCEPT ![key] = cost], u - pm[key] + cost,
                             MaxCost, est, <<>>)}
    ELSE IF cost > MaxCost
    THEN \* 2. not cacheable
         {[pmap |-> pm, used |-> u, victims |-> <<>>, added |-> FALSE]}
    ELSE IF u + cost <= MaxCost
    THEN \* 3. there is room
         {[pmap |-> lockedMapSet(pm, key, cost), used |-> u + cost,
           victims |-> <<>>, added |-> TRUE]}
    ELSE \* 4. the incoming key against the tentative victim
         UNION {
            IF est[key] < est[v]
            THEN {[pmap |-> pm, used |-> u, victims |-> <<>>, added |-> FALSE]}
            ELSE {[pmap |-> lockedMapSet(r.pmap, key, cost), used |-> r.used + cost,
                   victims |-> r.victims, added |-> TRUE] :
                    r \in evictUntil(lockedMapDel(pm, v), u - pm[v],
                                     MaxCost - cost, est, <<v>>)}
            : v \in Candidates(pm, est)}

\* a del that counts one entry off used whether or not the key is tracked
policyDelBlind(pm, u, key) == <<lockedMapDel(pm, key), u - 1>>

\* del(key): removes from the map; subtracts the cost from used
policyDel(pm, u, key) ==
    IF key \in DOMAIN pm THEN <<lockedMapDel(pm, key), u - pm[key]>> ELSE <<pm, u>>

\* cap() = maxCost - used
policyCap(u) == MaxCost - u

\* a mutex that is never found held
mutexNeverHeld(mu) == TRUE

\* the policy's mutex is free (0: no holder)
mutexFree(mu) == mu = 0

(***************************************************************************)
(* The expiration map (src/unnamed/part_001): buckets, a Go map from bucket *)
(* number to bucket, a bucket a map from key to conflict.  A time is a      *)
(* number of seconds; 0 is the zero time.Time.                              *)
(***************************************************************************)
bucketSizeSecs == 5
\* time.Time.Second() is the second within the minute, 0..59
secondsPerMinute == 60

\* t.Second() / bucketSizeSecs
timeToBucket(t) == (t % secondsPerMinute) \div bucketSizeSecs

newExpirationMap == [b \in {} |-> newLockedMap]

\* Add: nothing for the zero expiration; else buckets[bucketNum][key] = conflict
expirationMapAdd(m, key, conflict, expiration) ==
    IF expiration = NoExpiration THEN m
    ELSE LET bucketNum == timeToBucket(expiration)
             old == IF bucketNum \in DOMAIN m THEN m[bucketNum] ELSE newLockedMap
         IN [b \in DOMAIN m \cup {bucketNum} |->
                IF b = bucketNum THEN lockedMapSet(old, key, conflict) ELSE m[b]]

\* Delete: delete(buckets[bucketNum], key) when the bucket exists
expirationMapDelete(m, key, expiration) ==
    LET bucketNum == timeToBucket(expiration) IN
    IF bucketNum \notin DOMAIN m THEN m
    ELSE [m EXCEPT ![bucketNum] = lockedMapDel(@, key)]

\* CleanUp, line 77: the bucket before the one of the current time
cleanUpBucket(t) == timeToBucket(t) - 1

\* CleanUp, line 80: keys := m.buckets[bucketNum], nil when there is none
cleanUpKeys(m, t) ==
    IF cleanUpBucket(t) \in DOMAIN m THEN m[cleanUpBucket(t)] ELSE newLockedMap

\* CleanUp, line 81: delete(m.buckets, bucketNum)
cleanUpDetach(m, t) == [b \in DOMAIN m \ {cleanUpBucket(t)} |-> m[b]]

\* the store after store.Del(key, 0) for every key of the set
RECURSIVE delAll(_, _)
delAll(s, K) ==
    IF K = {} THEN s
    ELSE LET k == CHOOSE x \in K : TRUE IN delAll(shardedDel(s, k, 0)[1], K \ {k})

\* the buckets that hold the key
bucketsOf(m, key) == {b \in DOMAIN m : key \in DOMAIN m[b]}

Procs == {1, 2}

VARIABLES
    shards,     \* the sharded store
    now,        \* the clock
    last,       \* the store operation that ran last: its case and its result
    data,       \* Cache.data: the hash map, key -> value
    pmap,       \* the policy map, key -> cost
    pused,      \* the policy's used: the sum of the costs it admitted
    used,       \* Cache.used, a uint64 kept as the signed residue modulo 2^64
    pmu,        \* the holder of the policy's mutex, 0 when free
    pc,         \* where each caller is in Get / Set / Del
    arg,        \* each caller's key, val and cost
    victims,    \* each caller's victims still to be evicted from the hash map
    ret,        \* what the Get that returned last gave
    em,         \* expirationMap.buckets
    swept,      \* whether CleanUp has run in the current bucket period
    onEvict,    \* the onEvict calls of the CleanUp that ran last
    lastSet,    \* per key, the value of the last Set the policy admitted
    call        \* per caller, what policy.Add returned to its Set and the
                \* OnEvict calls the Set has made since

\* one lockedMap used by several goroutines
VARIABLES
    lmap,       \* lockedMap.data as it is in memory
    amap,       \* the map of a store whose operations take effect one at a time
    rwmu,       \* lockedMap's RWMutex: the writer holding it (0: none), the readers
    lpc,        \* where each goroutine is in lockedMap.Get / Set / Del / Run
    larg,       \* each goroutine's key, value and f
    lvis,       \* the keys each goroutine's Run has visited, in order
    lres        \* what the Get or Run that returned last gave

lockVars == <<lmap, amap, rwmu, lpc, larg, lvis, lres>>

\* a call of NewCache
VARIABLES
    cfgIn,      \* the Config the caller passed, as it was at the call
    config,     \* the caller's Config after the call
    built       \* what NewCache gave

newVars == <<cfgIn, config, built>>

\* a SuperFlag
VARIABLES
    sf,         \* the *SuperFlag the caller holds: nil, or its map m
    fcall       \* the NewSuperFlag or MergeAndCheckDefault call that ran last

flagVars == <<sf, fcall>>

\* the expiration map used by several goroutines
VARIABLES
    emu,        \* the goroutine holding expirationMap's lock, 0 when free
    spc,        \* where each goroutine is in Add / Delete / CleanUp
    sarg,       \* each goroutine's key, conflict and expiration, or bucketNum
    skeys,      \* keys of each goroutine's CleanUp: the bucket it detached
    scalls,     \* the per-key work done by CleanUp calls so far
    nadds       \* the number of Add calls so far

sweepVars == <<emu, spc, sarg, skeys, scalls, nadds>>
auxVars == <<lockVars, newVars, flagVars, sweepVars>>

expVars == <<em, swept, onEvict>>
storeVars == <<shards, now, last, em, swept, onEvict>>
cacheVars == <<data, pmap, pused, used, pmu, pc, arg, victims, ret, lastSet, call>>
vars == <<shards, now, last, em, swept, onEvict, data, pmap, pused, used, pmu, pc, arg, victims, ret,
          lastSet, call, auxVars>>

NoOp == [op |-> "none", case |-> "none", ok |-> FALSE]
NoArg == [key |-> "", val |-> Nil, cost |-> 0]
NoRet == [key |-> "", val |-> Nil]
NoCall == [added |-> "none", victims |-> <<>>, calls |-> <<>>]

StoreInit ==
    /\ shards = newShardedMap
    /\ now = 0
    /\ last = NoOp
    /\ em = newExpirationMap
    /\ swept = FALSE
    /\ onEvict = {}

\* NewCache: an empty hash map and policy, used = 0, size = NumCounters
CacheInit ==
    /\ data = newLockedMap
    /\ pmap = newLockedMap
    /\ pused = 0
    /\ used = 0
    /\ pmu = 0
    /\ pc = [p \in Procs |-> "idle"]
    /\ arg = [p \in Procs |-> NoArg]
    /\ victims = [p \in Procs |-> <<>>]
    /\ ret = NoRet
    /\ lastSet = [k \in CacheKeys |-> Nil]
    /\ call = [p \in Procs |-> NoCall]

\* the RWMutex is free
rwFree == [w |-> 0, r |-> {}]
NoLArg == [key |-> 0, val |-> Nil, stop |-> {}]
NoLRes == [op |-> "none", key |-> 0, val |-> Nil, abs |-> Nil, visited |-> <<>>,
           stopped |-> FALSE, present |-> {}, stop |-> {}]

\* newLockedMap: an empty map, nobody inside
LockInit ==
    /\ lmap = newLockedMap
    /\ amap = newLockedMap
    /\ rwmu = rwFree
    /\ lpc = [p \in Procs |-> "idle"]
    /\ larg = [p \in Procs |-> NoLArg]
    /\ lvis = [p \in Procs |-> <<>>]
    /\ lres = NoLRes

\* a nil *Config
NilConfig == [nil |-> TRUE]
NotBuilt == [kind |-> "none"]

\* NewCache has not been called
NewInit ==
    /\ cfgIn = NilConfig
    /\ config = NilConfig
    /\ built = NotBuilt

\* a nil *SuperFlag
NilFlag == [kind |-> "nil", m |-> newLockedMap]
NoFlagCall == [op |-> "none", out |-> "none", bare |-> FALSE,
               user |-> newLockedMap, def |-> newLockedMap]

\* no SuperFlag has been made
FlagInit ==
    /\ sf = NilFlag
    /\ fcall = NoFlagCall

NoSArg == [key |-> 0, conflict |-> 0, expiration |-> NoExpiration, bucketNum |-> 0]

\* newExpirationMap with its lock free, no call in progress
SweepInit ==
    /\ emu = 0
    /\ spc = [p \in Procs |-> "idle"]
    /\ sarg = [p \in Procs |-> NoSArg]
    /\ skeys = [p \in Procs |-> newLockedMap]
    /\ scalls = {}
    /\ nadds = 0

AuxInit == LockInit /\ NewInit /\ FlagInit /\ SweepInit

Init == StoreInit /\ CacheInit /\ AuxInit

(***************************************************************************)
(* The sharded store's operations, each under its shard's lock.            *)
(***************************************************************************)
StoreGet(key, conflict) ==
    LET r == shardedGet(shards, key, conflict, now) IN
    /\ last' = [op |-> "Get", case |-> caseOf(shards, key, conflict), ok |-> r[2]]
    /\ UNCHANGED <<shards, now>>
    /\ UNCHANGED expVars
    /\ UNCHANGED cacheVars
    /\ UNCHANGED auxVars

StoreSet(i) ==
    /\ fresh(i, now)
    /\ shards' = shardedSet(shards, i)
    /\ last' = [op |-> "Set", case |-> caseOf(shards, i.key, i.conflict), ok |-> TRUE]
    /\ UNCHANGED now
    /\ UNCHANGED expVars
    /\ UNCHANGED cacheVars
    /\ UNCHANGED auxVars

StoreUpdate(i) ==
    LET r == shardedUpdate(shards, i) IN
    /\ fresh(i, now)
    /\ shards' = r[1]
    /\ last' = [op |-> "Update", case |-> caseOf(shards, i.key, i.conflict),
                ok |-> r[2]]
    /\ UNCHANGED now
    /\ UNCHANGED expVars
    /\ UNCHANGED cacheVars
    /\ UNCHANGED auxVars

StoreDel(key, conflict) ==
    LET r == shardedDel(shards, key, conflict) IN
    /\ shards' = r[1]
    /\ last' = [op |-> "Del", case |-> caseOf(shards, key, conflict),
                ok |-> (r[1] # shards)]
    /\ UNCHANGED now
    /\ UNCHANGED expVars
    /\ UNCHANGED cacheVars
    /\ UNCHANGED auxVars

StoreClear ==
    /\ shards' = shardedClear(shards)
    /\ last' = [op |-> "Clear",
                case |-> IF shards = newShardedMap THEN "empty" ELSE "held",
                ok |-> TRUE]
    /\ UNCHANGED now
    /\ UNCHANGED expVars
    /\ UNCHANGED cacheVars
    /\ UNCHANGED auxVars

Tick ==
    /\ now < MaxTime
    /\ now' = now + 1
    /\ UNCHANGED <<shards, last>>
    /\ UNCHANGED expVars
    /\ UNCHANGED cacheVars
    /\ UNCHANGED auxVars

StoreNext ==
    \/ \E k \in StoreKeys, c \in Conflicts : StoreGet(k, c)
    \/ \E i \in Items : StoreSet(i)
    \/ \E i \in Items : StoreUpdate(i)
    \/ \E k \in StoreKeys, c \in Conflicts : StoreDel(k, c)
    \/ StoreClear
    \/ Tick

SpecStore == Init /\ [][StoreNext]_vars

(***************************************************************************)
(* The life of items with a time to live: an item is set with its           *)
(* expiration and added to the expiration map, deleted, or swept by the     *)
(* CleanUp that a ticker runs once in every bucket period.                  *)
(***************************************************************************)
\* times to live: none, one bucket width, a little over a minute
TimesToLive == {0, bucketSizeSecs, secondsPerMinute + 2}
\* one item with a time to live, under one conflict, value and cost
ExpKeys == {1}
ExpConflict == 1
ExpValue == 1
ExpCost == 1

expirationOf(ttl, t) == IF ttl = 0 THEN NoExpiration ELSE t + ttl

\* an item with a time to live is stored, tracked by the policy at its cost and
\* added to the expiration map (Add, lines 47-60)
ExpAdd(k, ttl) ==
    LET i == [key |-> k, conflict |-> ExpConflict, value |-> ExpValue,
              expiration |-> expirationOf(ttl, now)] IN
    /\ shards' = shardedSet(shards, i)
    /\ em' = expirationMapAdd(em, k, i.conflict, i.expiration)
    /\ IF k \in DOMAIN pmap
       THEN UNCHANGED <<pmap, pused>>
       ELSE /\ pused + ExpCost <= MaxCost
            /\ pmap' = lockedMapSet(pmap, k, ExpCost)
            /\ pused' = pused + ExpCost
    /\ UNCHANGED <<now, last, swept, onEvict>>
    /\ UNCHANGED <<data, used, pmu, pc, arg, victims, ret, lastSet, call>>
    /\ UNCHANGED auxVars

\* a stored item is deleted: out of the expiration map under its expiration
\* (Delete, lines 62-71), out of the policy and out of the store
ExpDel(k) ==
    /\ caseOf(shards, k, 0) # "absent"
    /\ em' = expirationMapDelete(em, k, held(shards, k).expiration)
    /\ pmap' = policyDel(pmap, pused, k)[1]
    /\ pused' = policyDel(pmap, pused, k)[2]
    /\ shards' = shardedDel(shards, k, 0)[1]
    /\ UNCHANGED <<now, last, swept, onEvict>>
    /\ UNCHANGED <<data, used, pmu, pc, arg, victims, ret, lastSet, call>>
    /\ UNCHANGED auxVars

\* CleanUp, lines 73-91: the bucket before the current one is detached; every
\* key of it is deleted from the store with conflict 0 and onEvict is called
\* with the stored value and the policy's cost
CleanUp ==
    /\ ~swept
    /\ swept' = TRUE
    /\ em' = cleanUpDetach(em, now)
    /\ shards' = delAll(shards, DOMAIN cleanUpKeys(em, now))
    /\ onEvict' = {[key |-> k, conflict |-> cleanUpKeys(em, now)[k],
                    value |-> shardedDel(shards, k, 0)[3],
                    cost |-> lockedMapGet(pmap, k)] :
                        k \in DOMAIN cleanUpKeys(em, now)}
    /\ UNCHANGED <<now, last>>
    /\ UNCHANGED cacheVars
    /\ UNCHANGED auxVars

\* a second passes; a new bucket period starts only after the period's CleanUp
ExpTick ==
    /\ now < MaxSec
    /\ (now + 1) % bucketSizeSecs = 0 => swept
    /\ now' = now + 1
    /\ swept' = IF (now + 1) % bucketSizeSecs = 0 THEN FALSE ELSE swept
    /\ UNCHANGED <<shards, last, em, onEvict>>
    /\ UNCHANGED cacheVars
    /\ UNCHANGED auxVars

ExpNext ==
    \/ \E k \in ExpKeys, ttl \in TimesToLive : ExpAdd(k, ttl)
    \/ \E k \in ExpKeys : ExpDel(k)
    \/ CleanUp
    \/ ExpTick

SpecExp == Init /\ [][ExpNext]_vars

(***************************************************************************)
(* Cache.Get, Cache.Set and Cache.Del (src/cache.go), a step for every     *)
(* access to the hash map, the policy or Cache.used.  A call into the      *)
(* policy holds the policy's mutex from its first step to its second.      *)
(***************************************************************************)
\* Set, line 87: policy.Add is entered
SetCall(p, k, v, c) ==
    /\ pc[p] = "idle"
    /\ used < MaxUsed
    /\ mutexFree(pmu)
    /\ pmu' = p
    /\ pc' = [pc EXCEPT ![p] = "Add"]
    /\ arg' = [arg EXCEPT ![p] = [key |-> k, val |-> v, cost |-> c]]
    /\ ret' = NoRet
    /\ call' = [call EXCEPT ![p] = NoCall]
    /\ UNCHANGED <<data, pmap, pused, used, victims, lastSet>>
    /\ UNCHANGED storeVars
    /\ UNCHANGED auxVars

\* a Set that goes on to store the value whether or not the key was added
PolicyAddIgnoreAdded(p) ==
    /\ pc[p] = "Add"
    /\ \E est \in Estimates :
         \E o \in policyAdd(pmap, pused, arg[p].key, arg[p].cost, est) :
            /\ pmap' = o.pmap
            /\ pused' = o.used
            /\ call' = [call EXCEPT ![p] = [added |-> IF o.added THEN "yes" ELSE "no",
                                             victims |-> o.victims,
                                             calls |-> <<>>]]
            /\ victims' = [victims EXCEPT ![p] = o.victims]
            /\ pc' = [pc EXCEPT ![p] = IF o.victims = <<>> THEN "Store" ELSE "Evict"]
            /\ arg' = [arg EXCEPT ![p].cost = 0]
            /\ lastSet' = IF o.added
                          THEN [lastSet EXCEPT ![arg[p].key] = arg[p].val]
                          ELSE lastSet
    /\ pmu' = 0
    /\ UNCHANGED <<data, used, ret>>
    /\ UNCHANGED storeVars
    /\ UNCHANGED auxVars

\* Set, lines 87-90: policy.Add decides; a key not added returns (nil, false)
PolicyAdd(p) ==
    /\ pc[p] = "Add"
    /\ \E est \in Estimates :
         \E o \in policyAdd(pmap, pused, arg[p].key, arg[p].cost, est) :
            /\ pmap' = o.pmap
            /\ pused' = o.used
            /\ call' = [call EXCEPT ![p] = [added |-> IF o.added THEN "yes" ELSE "no",
                                             victims |-> o.victims,
                                             calls |-> <<>>]]
            /\ IF o.added
               THEN /\ victims' = [victims EXCEPT ![p] = o.victims]
                    /\ pc' = [pc EXCEPT ![p] =
                                IF o.victims = <<>> THEN "Store" ELSE "Evict"]
                    /\ arg' = [arg EXCEPT ![p].cost = 0]
                    /\ lastSet' = [lastSet EXCEPT ![arg[p].key] = arg[p].val]
               ELSE /\ pc' = [pc EXCEPT ![p] = "idle"]
                    /\ arg' = [arg EXCEPT ![p] = NoArg]
                    /\ UNCHANGED <<victims, lastSet>>
    /\ pmu' = 0
    /\ UNCHANGED <<data, used, ret>>
    /\ UNCHANGED storeVars
    /\ UNCHANGED auxVars

\* a victim loop that does not call OnEvict
EvictSilent(p) ==
    /\ pc[p] = "Evict"
    /\ data' = lockedMapDel(data, Head(victims[p]))
    /\ used' = used - 1
    /\ victims' = [victims EXCEPT ![p] = Tail(@)]
    /\ pc' = [pc EXCEPT ![p] = IF Tail(victims[p]) = <<>> THEN "Store" ELSE "Evict"]
    /\ UNCHANGED <<pmap, pused, pmu, arg, ret, lastSet, call>>
    /\ UNCHANGED storeVars
    /\ UNCHANGED auxVars

\* Set, lines 91-97: one victim is deleted, counted off and notified
Evict(p) ==
    /\ pc[p] = "Evict"
    /\ data' = lockedMapDel(data, Head(victims[p]))
    /\ used' = used - 1
    /\ call' = [call EXCEPT ![p].calls = Append(@, Head(victims[p]))]
    /\ victims' = [victims EXCEPT ![p] = Tail(@)]
    /\ pc' = [pc EXCEPT ![p] = IF Tail(victims[p]) = <<>> THEN "Store" ELSE "Evict"]
    /\ UNCHANGED <<pmap, pused, pmu, arg, ret, lastSet>>
    /\ UNCHANGED storeVars
    /\ UNCHANGED auxVars

\* Set, line 98: c.data.Set(key, val)
Store(p) ==
    /\ pc[p] = "Store"
    /\ data' = lockedMapSet(data, arg[p].key, arg[p].val)
    /\ pc' = [pc EXCEPT ![p] = "Incr"]
    /\ arg' = [arg EXCEPT ![p] = NoArg]
    /\ UNCHANGED <<pmap, pused, used, pmu, victims, ret, lastSet, call>>
    /\ UNCHANGED storeVars
    /\ UNCHANGED auxVars

\* Set, line 99: atomic.AddUint64(&c.used, 1) == c.size; if not, line 103
Incr(p) ==
    /\ pc[p] = "Incr"
    /\ used' = used + 1
    /\ call' = [call EXCEPT ![p] = NoCall]
    /\ pc' = [pc EXCEPT ![p] = IF used + 1 = NumCounters THEN "Reset" ELSE "idle"]
    /\ UNCHANGED <<data, pmap, pused, pmu, arg, victims, ret, lastSet>>
    /\ UNCHANGED storeVars
    /\ UNCHANGED auxVars

\* Set, line 100: atomic.StoreUint64(&c.used, c.size/2)
Reset(p) ==
    /\ pc[p] = "Reset"
    /\ used' = NumCounters \div 2
    /\ pc' = [pc EXCEPT ![p] = "ResWait"]
    /\ UNCHANGED <<data, pmap, pused, pmu, arg, victims, ret, lastSet, call>>
    /\ UNCHANGED storeVars
    /\ UNCHANGED auxVars

\* Set, line 101: policy.Res is entered
ResEnter(p) ==
    /\ pc[p] = "ResWait"
    /\ mutexFree(pmu)
    /\ pmu' = p
    /\ pc' = [pc EXCEPT ![p] = "Res"]
    /\ UNCHANGED <<data, pmap, pused, used, arg, victims, ret, lastSet, call>>
    /\ UNCHANGED storeVars
    /\ UNCHANGED auxVars

\* Set, lines 101-103: policy.Res has reset the sketch; Set returns
ResExit(p) ==
    /\ pc[p] = "Res"
    /\ pmu' = 0
    /\ pc' = [pc EXCEPT ![p] = "idle"]
    /\ UNCHANGED <<data, pmap, pused, used, arg, victims, ret, lastSet, call>>
    /\ UNCHANGED storeVars
    /\ UNCHANGED auxVars

\* Del, line 107: policy.Del is entered
DelCall(p, k) ==
    /\ pc[p] = "idle"
    /\ mutexFree(pmu)
    /\ pmu' = p
    /\ pc' = [pc EXCEPT ![p] = "PDel"]
    /\ arg' = [arg EXCEPT ![p] = [NoArg EXCEPT !.key = k]]
    /\ ret' = NoRet
    /\ call' = [call EXCEPT ![p] = NoCall]
    /\ UNCHANGED <<data, pmap, pused, used, victims, lastSet>>
    /\ UNCHANGED storeVars
    /\ UNCHANGED auxVars

\* Del, line 107: policy.Del has removed the key
PolicyDel(p) ==
    /\ pc[p] = "PDel"
    /\ pmap' = policyDel(pmap, pused, arg[p].key)[1]
    /\ pused' = policyDel(pmap, pused, arg[p].key)[2]
    /\ pmu' = 0
    /\ pc' = [pc EXCEPT ![p] = "DDel"]
    /\ UNCHANGED <<data, used, arg, victims, ret, lastSet, call>>
    /\ UNCHANGED storeVars
    /\ UNCHANGED auxVars

\* a Del that calls OnEvict for the key it removes
DataDelNotify(p) ==
    /\ pc[p] = "DDel"
    /\ data' = lockedMapDel(data, arg[p].key)
    /\ call' = [call EXCEPT ![p].calls = Append(@, arg[p].key)]
    /\ pc' = [pc EXCEPT ![p] = "idle"]
    /\ arg' = [arg EXCEPT ![p] = NoArg]
    /\ UNCHANGED <<pmap, pused, used, pmu, victims, ret, lastSet>>
    /\ UNCHANGED storeVars
    /\ UNCHANGED auxVars

\* Del, lines 106-109 run alone: policy.Del, then c.data.Del
CacheDel(d, pm, u, k) ==
    <<lockedMapDel(d, k), policyDel(pm, u, k)[1], policyDel(pm, u, k)[2]>>

\* Del, line 108: c.data.Del(key)
DataDel(p) ==
    /\ pc[p] = "DDel"
    /\ data' = lockedMapDel(data, arg[p].key)
    /\ pc' = [pc EXCEPT ![p] = "idle"]
    /\ arg' = [arg EXCEPT ![p] = NoArg]
    /\ UNCHANGED <<pmap, pused, used, pmu, victims, ret, lastSet, call>>
    /\ UNCHANGED storeVars
    /\ UNCHANGED auxVars

\* Get, line 82: the key is pushed to the (lossy) buffer
GetCall(p, k) ==
    /\ pc[p] = "idle"
    /\ pc' = [pc EXCEPT ![p] = "Get"]
    /\ arg' = [arg EXCEPT ![p] = [NoArg EXCEPT !.key = k]]
    /\ ret' = NoRet
    /\ call' = [call EXCEPT ![p] = NoCall]
    /\ UNCHANGED <<data, pmap, pused, used, pmu, victims, lastSet>>
    /\ UNCHANGED storeVars
    /\ UNCHANGED auxVars

\* Get, line 83: return c.data.Get(key)
GetRet(p) ==
    /\ pc[p] = "Get"
    /\ ret' = [key |-> arg[p].key, val |-> lockedMapGet(data, arg[p].key)]
    /\ pc' = [pc EXCEPT ![p] = "idle"]
    /\ arg' = [arg EXCEPT ![p] = NoArg]
    /\ UNCHANGED <<data, pmap, pused, used, pmu, victims, lastSet, call>>
    /\ UNCHANGED storeVars
    /\ UNCHANGED auxVars

CacheStep(p, V) ==
    \/ \E k \in CacheKeys, v \in V, c \in Costs : SetCall(p, k, v, c)
    \/ PolicyAdd(p)
    \/ Evict(p)
    \/ Store(p)
    \/ Incr(p)
    \/ Reset(p)
    \/ ResEnter(p)
    \/ ResExit(p)
    \/ \E k \in CacheKeys : DelCall(p, k)
    \/ PolicyDel(p)
    \/ DataDel(p)
    \/ \E k \in CacheKeys : GetCall(p, k)
    \/ GetRet(p)

AllIdle == \A p \in Procs : pc[p] = "idle"

\* any number of callers at once; the racing callers all store the same value
ConcValues == {1}
Next == \E p \in Procs : CacheStep(p, ConcValues)

Spec == Init /\ [][Next]_vars

\* one call at a time: a call starts only when every other caller has returned
NextSeq ==
    \E p \in Procs : (\A q \in Procs \ {p} : pc[q] = "idle") /\ CacheStep(p, Values)

SpecSeq == Init /\ [][NextSeq]_vars

(***************************************************************************)
(* lockedMap under its RWMutex (src/store.go:72-107), used by several      *)
(* goroutines at once.  A goroutine is inside from the step that takes the *)
(* lock to the step that accesses the map and returns (the deferred        *)
(* unlock).  An access that overlaps a write by another goroutine is a     *)
(* data race: it may give anything.                                        *)
(***************************************************************************)
LockKeys == {1, 2}
\* f of Run, by the set of keys at which it returns false
StopSets == SUBSET LockKeys

\* RLock: waits while a writer holds the mutex
canRLock(mu) == mu.w = 0

\* a Lock that does not wait for the readers
canLockPastReaders(mu) == mu.w = 0

\* Lock: waits while a writer or any reader holds the mutex
canLock(mu) == mu.w = 0 /\ mu.r = {}

rLock(mu, p) == [mu EXCEPT !.r = @ \cup {p}]
rUnlock(mu, p) == [mu EXCEPT !.r = @ \ {p}]
wLock(mu, p) == [mu EXCEPT !.w = p]
wUnlock(mu, p) == [mu EXCEPT !.w = 0]

\* the goroutines inside a section that reads, and inside one that writes
readers == {q \in Procs : lpc[q] \in {"Get", "Run"}}
writers == {q \in Procs : lpc[q] \in {"Set", "Del"}}

\* what a read of m.data[key] by p may give
readOf(p, key) ==
    IF writers \ {p} # {} THEN Values \cup {Nil} ELSE {lockedMapGet(lmap, key)}

\* what a write by p that would leave m may leave in memory
writeOf(p, m) ==
    IF (readers \cup writers) \ {p} # {} THEN {m, lmap, newLockedMap} ELSE {m}

\* Get, line 82: m.RLock()
LGetLock(p, k) ==
    /\ lpc[p] = "idle"
    /\ canRLock(rwmu)
    /\ rwmu' = rLock(rwmu, p)
    /\ lpc' = [lpc EXCEPT ![p] = "Get"]
    /\ larg' = [larg EXCEPT ![p] = [NoLArg EXCEPT !.key = k]]
    /\ lres' = NoLRes
    /\ UNCHANGED <<lmap, amap, lvis>>
    /\ UNCHANGED <<storeVars, cacheVars, newVars, flagVars, sweepVars>>

\* Get, lines 83-84: return m.data[key], and the deferred m.RUnlock()
LGetRead(p) ==
    /\ lpc[p] = "Get"
    /\ \E v \in readOf(p, larg[p].key) :
         lres' = [NoLRes EXCEPT !.op = "Get", !.key = larg[p].key, !.val = v,
                                !.abs = lockedMapGet(amap, larg[p].key)]
    /\ rwmu' = rUnlock(rwmu, p)
    /\ lpc' = [lpc EXCEPT ![p] = "idle"]
    /\ larg' = [larg EXCEPT ![p] = NoLArg]
    /\ UNCHANGED <<lmap, amap, lvis>>
    /\ UNCHANGED <<storeVars, cacheVars, newVars, flagVars, sweepVars>>

\* Set, line 88: m.Lock()
LSetLock(p, k, v) ==
    /\ lpc[p] = "idle"
    /\ canLock(rwmu)
    /\ rwmu' = wLock(rwmu, p)
    /\ lpc' = [lpc EXCEPT ![p] = "Set"]
    /\ larg' = [larg EXCEPT ![p] = [NoLArg EXCEPT !.key = k, !.val = v]]
    /\ lres' = NoLRes
    /\ UNCHANGED <<lmap, amap, lvis>>
    /\ UNCHANGED <<storeVars, cacheVars, newVars, flagVars, sweepVars>>

\* Set, lines 89-90: m.data[key] = value, and the deferred m.Unlock()
LSetWrite(p) ==
    /\ lpc[p] = "Set"
    /\ lmap' \in writeOf(p, lockedMapSet(lmap, larg[p].key, larg[p].val))
    /\ amap' = lockedMapSet(amap, larg[p].key, larg[p].val)
    /\ rwmu' = wUnlock(rwmu, p)
    /\ lpc' = [lpc EXCEPT ![p] = "idle"]
    /\ larg' = [larg EXCEPT ![p] = NoLArg]
    /\ UNCHANGED <<lvis, lres>>
    /\ UNCHANGED <<storeVars, cacheVars, newVars, flagVars, sweepVars>>

\* Del, line 94: m.Lock()
LDelLock(p, k) ==
    /\ lpc[p] = "idle"
    /\ canLock(rwmu)
    /\ rwmu' = wLock(rwmu, p)
    /\ lpc' = [lpc EXCEPT ![p] = "Del"]
    /\ larg' = [larg EXCEPT ![p] = [NoLArg EXCEPT !.key = k]]
    /\ lres' = NoLRes
    /\ UNCHANGED <<lmap, amap, lvis>>
    /\ UNCHANGED <<storeVars, cacheVars, newVars, flagVars, sweepVars>>

\* Del, lines 95-96: delete(m.data, key), and the deferred m.Unlock()
LDelWrite(p) ==
    /\ lpc[p] = "Del"
    /\ lmap' \in writeOf(p, lockedMapDel(lmap, larg[p].key))
    /\ amap' = lockedMapDel(amap, larg[p].key)
    /\ rwmu' = wUnlock(rwmu, p)
    /\ lpc' = [lpc EXCEPT ![p] = "idle"]
    /\ larg' = [larg EXCEPT ![p] = NoLArg]
    /\ UNCHANGED <<lvis, lres>>
    /\ UNCHANGED <<storeVars, cacheVars, newVars, flagVars, sweepVars>>

\* Run, line 100: m.RLock()
LRunLock(p, stop) ==
    /\ lpc[p] = "idle"
    /\ canRLock(rwmu)
    /\ rwmu' = rLock(rwmu, p)
    /\ lpc' = [lpc EXCEPT ![p] = "Run"]
    /\ larg' = [larg EXCEPT ![p] = [NoLArg EXCEPT !.stop = stop]]
    /\ lvis' = [lvis EXCEPT ![p] = <<>>]
    /\ lres' = NoLRes
    /\ UNCHANGED <<lmap, amap>>
    /\ UNCHANGED <<storeVars, cacheVars, newVars, flagVars, sweepVars>>

\* the keys of the map that the range loop of p has not yet come to
unvisited(p) == DOMAIN lmap \ {lvis[p][n] : n \in 1..Len(lvis[p])}

RunRes(p, vis, stopped) ==
    [NoLRes EXCEPT !.op = "Run", !.visited = vis, !.stopped = stopped,
                   !.present = DOMAIN lmap, !.stop = larg[p].stop]

\* a range loop that goes on after f has returned false
LRunVisitOn(p) ==
    /\ lpc[p] = "Run"
    /\ \E k \in unvisited(p) :
         /\ lvis' = [lvis EXCEPT ![p] = Append(@, k)]
         /\ UNCHANGED <<rwmu, lpc, larg, lres>>
    /\ UNCHANGED <<lmap, amap>>
    /\ UNCHANGED <<storeVars, cacheVars, newVars, flagVars, sweepVars>>

\* Run, lines 102-105: the range loop comes to a next key, in no fixed order,
\* and calls f; when f returns false Run returns (the deferred m.RUnlock())
LRunVisit(p) ==
    /\ lpc[p] = "Run"
    /\ \E k \in unvisited(p) :
         /\ lvis' = [lvis EXCEPT ![p] = Append(@, k)]
         /\ IF k \in larg[p].stop
            THEN /\ rwmu' = rUnlock(rwmu, p)
                 /\ lpc' = [lpc EXCEPT ![p] = "idle"]
                 /\ larg' = [larg EXCEPT ![p] = NoLArg]
                 /\ lres' = RunRes(p, Append(lvis[p], k), TRUE)
            ELSE UNCHANGED <<rwmu, lpc, larg, lres>>
    /\ UNCHANGED <<lmap, amap>>
    /\ UNCHANGED <<storeVars, cacheVars, newVars, flagVars, sweepVars>>

\* Run, lines 102-107: the range loop has come to every key; Run returns
LRunEnd(p) ==
    /\ lpc[p] = "Run"
    /\ unvisited(p) = {}
    /\ rwmu' = rUnlock(rwmu, p)
    /\ lpc' = [lpc EXCEPT ![p] = "idle"]
    /\ larg' = [larg EXCEPT ![p] = NoLArg]
    /\ lres' = RunRes(p, lvis[p], FALSE)
    /\ UNCHANGED <<lmap, amap, lvis>>
    /\ UNCHANGED <<storeVars, cacheVars, newVars, flagVars, sweepVars>>

LockStep(p) ==
    \/ \E k \in LockKeys : LGetLock(p, k)
    \/ LGetRead(p)
    \/ \E k \in LockKeys, v \in Values : LSetLock(p, k, v)
    \/ LSetWrite(p)
    \/ \E k \in LockKeys : LDelLock(p, k)
    \/ LDelWrite(p)
    \/ \E stop \in StopSets : LRunLock(p, stop)
    \/ LRunVisit(p)
    \/ LRunEnd(p)

LockNext == \E p \in Procs : LockStep(p)

SpecLock == Init /\ [][LockNext]_vars

(***************************************************************************)
(* NewCache (src/cache.go:56-79).                                          *)
(***************************************************************************)
\* the Configs a caller may pass: every count 0..MaxConfig, OnEvict given or nil
Configs == [NumCounters : 0..MaxConfig, MaxCost : 0..MaxConfig,
            BufferItems : 0..MaxConfig, OnEvict : BOOLEAN, Log : BOOLEAN]

\* a constructor that passes MaxCost on as it was given
maxCostAsGiven(c) == c.MaxCost

\* lines 57-59: a zero MaxCost takes the value of a non-zero NumCounters
maxCostOf(c) ==
    IF c.MaxCost = 0 /\ c.NumCounters # 0 THEN c.NumCounters ELSE c.MaxCost

\* lines 63-78: the Cache that is returned
cacheOf(c) ==
    [kind |-> "cache", data |-> newLockedMap, policyNumCounters |-> c.NumCounters,
     policyMaxCost |-> maxCostOf(c), recorder |-> c.Log,
     bufferCapacity |-> c.BufferItems, notify |-> c.OnEvict, used |-> 0,
     size |-> c.NumCounters]

\* NewCache(&c)
NewCacheCall(c) ==
    /\ cfgIn' = c
    /\ config' = [c EXCEPT !.MaxCost = maxCostOf(c)]
    /\ built' = cacheOf(c)
    /\ UNCHANGED <<storeVars, cacheVars, lockVars, flagVars, sweepVars>>

\* NewCache(nil): line 57 reads config.MaxCost through the nil pointer
NewCacheNil ==
    /\ cfgIn' = NilConfig
    /\ config' = NilConfig
    /\ built' = [kind |-> "panic"]
    /\ UNCHANGED <<storeVars, cacheVars, lockVars, flagVars, sweepVars>>

NewNext ==
    \/ \E c \in Configs : NewCacheCall(c)
    \/ NewCacheNil

SpecNew == Init /\ [][NewNext]_vars

(***************************************************************************)
(* SuperFlag (src/cache.go:115-273).  A string is the sequence of its      *)
(* characters.                                                             *)
(***************************************************************************)
\* the entries a flag is made of: "a=1", "A=2", "a_b=1", "a-b=2", " c =",
\* "d" (a key with no value) and " " (blank)
FlagEntries ==
    { <<"a", "=", "1">>, <<"A", "=", "2">>, <<"a", "_", "b", "=", "1">>,
      <<"a", "-", "b", "=", "2">>, <<" ", "c", " ", "=">>, <<"d">>, <<" ">> }

RECURSIVE joinWith(_, _)
joinWith(es, sep) ==
    IF es = <<>> THEN <<>>
    ELSE IF Len(es) = 1 THEN es[1]
    ELSE es[1] \o <<sep>> \o joinWith(Tail(es), sep)

\* the flags: up to MaxEntries entries separated by ";"
Flags ==
    {joinWith(es, ";") : es \in UNION {[1..n -> FlagEntries] : n \in 0..MaxEntries}}

\* strings.Index for a one-character separator, 0 when it does not occur
indexOf(str, c) ==
    IF \E i \in 1..Len(str) : str[i] = c
    THEN CHOOSE i \in 1..Len(str) : str[i] = c /\ \A j \in 1..(i - 1) : str[j] # c
    ELSE 0

\* strings.Split(str, sep)
RECURSIVE split(_, _)
split(str, sep) ==
    IF indexOf(str, sep) = 0 THEN <<str>>
    ELSE <<SubSeq(str, 1, indexOf(str, sep) - 1)>>
            \o split(SubSeq(str, indexOf(str, sep) + 1, Len(str)), sep)

\* strings.SplitN(str, sep, 2)
splitN2(str, sep) ==
    IF indexOf(str, sep) = 0 THEN <<str>>
    ELSE <<SubSeq(str, 1, indexOf(str, sep) - 1),
           SubSeq(str, indexOf(str, sep) + 1, Len(str))>>

\* strings.TrimSpace
RECURSIVE trimSpace(_)
trimSpace(str) ==
    IF str = <<>> THEN str
    ELSE IF Head(str) = " " THEN trimSpace(Tail(str))
    ELSE IF str[Len(str)] = " " THEN trimSpace(SubSeq(str, 1, Len(str) - 1))
    ELSE str

\* strings.ToLower
lowerOf(c) == IF c = "A" THEN "a" ELSE IF c = "B" THEN "b" ELSE c
toLower(str) == [i \in 1..Len(str) |-> lowerOf(str[i])]

\* strings.ReplaceAll for one character
replaceAll(str, old, new) == [i \in 1..Len(str) |-> IF str[i] = old THEN new ELSE str[i]]

\* parseFlag, lines 133-135: the key of an entry
flagKey(splits) == replaceAll(toLower(trimSpace(splits[1])), "_", "-")

\* parseFlag, lines 128-137: the loop over the entries; splits[1] of an entry
\* without "=" is an index out of range
RECURSIVE parseEntries(_, _)
parseEntries(kvs, kvm) ==
    IF kvs = <<>> THEN [kind |-> "ok", m |-> kvm]
    ELSE IF trimSpace(Head(kvs)) = <<>> THEN parseEntries(Tail(kvs), kvm)
    ELSE LET splits == splitN2(Head(kvs), "=") IN
         IF Len(splits) < 2 THEN [kind |-> "panic: index out of range", m |-> kvm]
         ELSE parseEntries(Tail(kvs),
                           lockedMapSet(kvm, flagKey(splits), trimSpace(splits[2])))

\* parseFlag, every flag parsed once
parsed == [flag \in Flags |-> parseEntries(split(flag, ";"), newLockedMap)]
parseFlag(flag) == parsed[flag]

\* whether the flag has an entry with a key and no "="
hasBareEntry(flag) ==
    \E n \in 1..Len(split(flag, ";")) :
        LET kv == split(flag, ";")[n] IN trimSpace(kv) # <<>> /\ indexOf(kv, "=") = 0

\* a merge in which the defaults replace what the user gave
mergeOverwrite(m, src) ==
    [k \in DOMAIN m \cup DOMAIN src |-> IF k \in DOMAIN src THEN src[k] ELSE m[k]]

\* MergeAndCheckDefault, lines 180-184: the defaults fill the keys not yet set
mergeMaps(m, src) ==
    [k \in DOMAIN m \cup DOMAIN src |-> IF k \in DOMAIN m THEN m[k] ELSE src[k]]

\* MergeAndCheckDefault, lines 169-175: the keys of sf.m that src does not have
numKeys(m, src) == Cardinality(DOMAIN m) - Cardinality(DOMAIN src \cap DOMAIN m)

\* MergeAndCheckDefault, lines 162-186
mergeAndCheckDefault(f, flag) ==
    LET src == parseFlag(flag) IN
    IF src.kind # "ok" THEN [kind |-> src.kind, m |-> f.m]
    ELSE IF f.kind = "nil" THEN [kind |-> "ok", m |-> src.m]
    ELSE IF numKeys(f.m, src.m) # 0 THEN [kind |-> "panic: invalid options", m |-> f.m]
    ELSE [kind |-> "ok", m |-> mergeMaps(f.m, src.m)]

\* NewSuperFlag(flag), lines 145-149
FlagNew(flag) ==
    LET r == parseFlag(flag) IN
    /\ sf' = IF r.kind = "ok" THEN r ELSE NilFlag
    /\ fcall' = [op |-> "new", out |-> r.kind, bare |-> hasBareEntry(flag),
                 user |-> newLockedMap, def |-> newLockedMap]
    /\ UNCHANGED <<storeVars, cacheVars, lockVars, newVars, sweepVars>>

\* sf.MergeAndCheckDefault(flag); a panic leaves sf as it was
FlagMerge(flag) ==
    LET r == mergeAndCheckDefault(sf, flag) IN
    /\ sf' = IF r.kind = "ok" THEN r ELSE sf
    /\ fcall' = [op |-> "merge", out |-> r.kind, bare |-> hasBareEntry(flag),
                 user |-> sf.m, def |-> parseFlag(flag).m]
    /\ UNCHANGED <<storeVars, cacheVars, lockVars, newVars, sweepVars>>

FlagNext ==
    \/ \E flag \in Flags : FlagNew(flag)
    \/ \E flag \in Flags : FlagMerge(flag)

SpecFlag == Init /\ [][FlagNext]_vars

(***************************************************************************)
(* The expiration map (src/unnamed/part_001) used by several goroutines:   *)
(* Add, Delete and CleanUp, a step for taking the lock, a step for the     *)
(* work under it, and in CleanUp a step for every key of the detached      *)
(* bucket.  Every Add carries a conflict of its own, which tells the       *)
(* entries of different Adds apart.                                        *)
(***************************************************************************)
SweepKeys == {1, 257}
\* an item expires a second after it is added
sweepTTL == 1

\* the rest of the cache as CleanUp leaves it
sweepRest == <<now, last, swept, onEvict, cacheVars, lockVars, newVars, flagVars>>

\* the item is stored; Add, lines 52-53: m.Lock()
SAddLock(p, k) ==
    /\ spc[p] = "idle"
    /\ nadds < MaxAdds
    /\ emu = 0
    /\ emu' = p
    /\ nadds' = nadds + 1
    /\ spc' = [spc EXCEPT ![p] = "Add"]
    /\ sarg' = [sarg EXCEPT ![p] = [NoSArg EXCEPT !.key = k, !.conflict = nadds + 1,
                                                  !.expiration = now + sweepTTL]]
    /\ shards' = shardedSet(shards, [key |-> k, conflict |-> nadds + 1,
                                     value |-> ExpValue,
                                     expiration |-> now + sweepTTL])
    /\ UNCHANGED <<em, skeys, scalls>>
    /\ UNCHANGED sweepRest

\* Add, lines 54-59: the entry is written, and the deferred m.Unlock()
SAddWrite(p) ==
    /\ spc[p] = "Add"
    /\ em' = expirationMapAdd(em, sarg[p].key, sarg[p].conflict, sarg[p].expiration)
    /\ emu' = 0
    /\ spc' = [spc EXCEPT ![p] = "idle"]
    /\ sarg' = [sarg EXCEPT ![p] = NoSArg]
    /\ UNCHANGED <<shards, skeys, scalls, nadds>>
    /\ UNCHANGED sweepRest

\* Delete of a stored item under its expiration, lines 63-64: m.Lock()
SDelLock(p, k) ==
    /\ spc[p] = "idle"
    /\ caseOf(shards, k, 0) # "absent"
    /\ emu = 0
    /\ emu' = p
    /\ spc' = [spc EXCEPT ![p] = "Delete"]
    /\ sarg' = [sarg EXCEPT ![p] = [NoSArg EXCEPT !.key = k,
                                        !.expiration = held(shards, k).expiration]]
    /\ UNCHANGED <<shards, em, skeys, scalls, nadds>>
    /\ UNCHANGED sweepRest

\* Delete, lines 65-70: the key leaves its bucket, and the deferred m.Unlock()
SDelWrite(p) ==
    /\ spc[p] = "Delete"
    /\ em' = expirationMapDelete(em, sarg[p].key, sarg[p].expiration)
    /\ emu' = 0
    /\ spc' = [spc EXCEPT ![p] = "idle"]
    /\ sarg' = [sarg EXCEPT ![p] = NoSArg]
    /\ UNCHANGED <<shards, skeys, scalls, nadds>>
    /\ UNCHANGED sweepRest

\* CleanUp, lines 77-79: bucketNum from the current time, then m.Lock()
SCleanLock(p) ==
    /\ spc[p] = "idle"
    /\ emu = 0
    /\ emu' = p
    /\ spc' = [spc EXCEPT ![p] = "Detach"]
    /\ sarg' = [sarg EXCEPT ![p] = [NoSArg EXCEPT !.expiration = now,
                                                  !.bucketNum = cleanUpBucket(now)]]
    /\ UNCHANGED <<shards, em, skeys, scalls, nadds>>
    /\ UNCHANGED sweepRest

\* a CleanUp that keeps the lock after detaching the bucket
SCleanDetachHold(p) ==
    /\ spc[p] = "Detach"
    /\ skeys' = [skeys EXCEPT ![p] = cleanUpKeys(em, sarg[p].expiration)]
    /\ em' = cleanUpDetach(em, sarg[p].expiration)
    /\ spc' = [spc EXCEPT ![p] = "Keys"]
    /\ UNCHANGED <<shards, emu, sarg, scalls, nadds>>
    /\ UNCHANGED sweepRest

\* CleanUp, lines 80-82: keys taken, the bucket deleted from the map, m.Unlock()
SCleanDetach(p) ==
    /\ spc[p] = "Detach"
    /\ skeys' = [skeys EXCEPT ![p] = cleanUpKeys(em, sarg[p].expiration)]
    /\ em' = cleanUpDetach(em, sarg[p].expiration)
    /\ emu' = 0
    /\ spc' = [spc EXCEPT ![p] = "Keys"]
    /\ UNCHANGED <<shards, sarg, scalls, nadds>>
    /\ UNCHANGED sweepRest

\* CleanUp, lines 84-90: one key of the range loop: store.Del(key, 0),
\* policy.Cost(key), onEvict(key, conflict, value, cost)
SCleanKey(p) ==
    /\ spc[p] = "Keys"
    /\ \E k \in DOMAIN skeys[p] :
         /\ shards' = shardedDel(shards, k, 0)[1]
         /\ scalls' = scalls \cup {[by |-> p, key |-> k, conflict |-> skeys[p][k],
                                    bucketNum |-> sarg[p].bucketNum,
                                    locked |-> (emu = p)]}
         /\ skeys' = [skeys EXCEPT ![p] = lockedMapDel(@, k)]
    /\ UNCHANGED <<em, emu, spc, sarg, nadds>>
    /\ UNCHANGED sweepRest

\* CleanUp, lines 84-91: the range loop is over; CleanUp returns
SCleanEnd(p) ==
    /\ spc[p] = "Keys"
    /\ DOMAIN skeys[p] = {}
    /\ emu' = IF emu = p THEN 0 ELSE emu
    /\ spc' = [spc EXCEPT ![p] = "idle"]
    /\ sarg' = [sarg EXCEPT ![p] = NoSArg]
    /\ UNCHANGED <<shards, em, skeys, scalls, nadds>>
    /\ UNCHANGED sweepRest

\* a bucket period passes
SweepTick ==
    /\ now + bucketSizeSecs <= MaxSweepSec
    /\ now' = now + bucketSizeSecs
    /\ UNCHANGED <<shards, last, em, swept, onEvict>>
    /\ UNCHANGED <<cacheVars, auxVars>>

SweepStep(p) ==
    \/ \E k \in SweepKeys : SAddLock(p, k)
    \/ SAddWrite(p)
    \/ \E k \in SweepKeys : SDelLock(p, k)
    \/ SDelWrite(p)
    \/ SCleanLock(p)
    \/ SCleanDetach(p)
    \/ SCleanKey(p)
    \/ SCleanEnd(p)

SweepNext == (\E p \in Procs : SweepStep(p)) \/ SweepTick

SpecSweep == Init /\ [][SweepNext]_vars

(***************************************************************************)
(* The claims.                                                             *)
(***************************************************************************)
InPolicy(p) == pc[p] \in {"Add", "PDel", "Res"}

\* C1: once every Set has returned, the costs held in the policy map sum to at
\* most MaxCost, that is policy.Cap() = MaxCost - used is not negative.
C1_CostWithinMaxCost ==
    AllIdle => /\ SumCosts(pmap) <= MaxCost
               /\ policyCap(pused) >= 0
               /\ pused = SumCosts(pmap)

\* every call has returned and the policy map is full: both keys, MaxCost in use
C1_Witness ==
    /\ AllIdle
    /\ DOMAIN pmap = CacheKeys
    /\ SumCosts(pmap) = MaxCost

\* C2: with one call at a time, a Get of a key returns the value of the last Set
\* of that key that reported success, or a miss; never another value.
C2_GetReturnsLastSetOrMiss ==
    ret # NoRet => ret.val = Nil \/ ret.val = lastSet[ret.key]

\* a Get has hit and returned the value of the key's last successful Set
C2_Witness ==
    /\ ret # NoRet
    /\ ret.val # Nil
    /\ ret.val = lastSet[ret.key]
    /\ \E k \in CacheKeys : k # ret.key /\ lockedMapGet(data, k) \notin {Nil, ret.val}

\* C3: whenever every Set and Del has returned, the hash map and the policy
\* agree: a key is in the hash map exactly if the policy map tracks it.
C3_StoreAgreesWithPolicy ==
    AllIdle => DOMAIN data = DOMAIN pmap

C5_CollisionGuard ==
    \A k \in StoreKeys, c2 \in Conflicts :
        caseOf(shards, k, c2) = "collide"
            => /\ shardedGet(shards, k, c2, now) = <<Nil, FALSE>>
               /\ c2 # 0
                    => /\ shardedDel(shards, k, c2)[1] = shards
                       /\ shardedGet(shardedDel(shards, k, c2)[1], k,
                                     held(shards, k).conflict, now)
                            = shardedGet(shards, k, held(shards, k).conflict, now)
                       /\ ~isExpired(held(shards, k), now)
                            => shardedGet(shardedDel(shards, k, c2)[1], k,
                                          held(shards, k).conflict, now)
                                = <<held(shards, k).value, TRUE>>

\* a Del under another, non-zero conflict has run and the item is still held
C5_Witness ==
    /\ last.op = "Del"
    /\ last.case = "collide"
    /\ ~last.ok
    /\ \E k \in StoreKeys : caseOf(shards, k, 0) # "absent"

\* C6: a Set of (k, c2, v2) over an item held under (k, c1), c1 # c2, does not
\* overwrite it: a Get(k, c1) that hit before the Set still hits after it, with
\* the old value.
C6_SetKeepsCollidingItem ==
    \A i \in Items :
        (/\ fresh(i, now)
         /\ caseOf(shards, i.key, i.conflict) = "collide"
         /\ shardedGet(shards, i.key, held(shards, i.key).conflict, now)[2])
            => shardedGet(shardedSet(shards, i), i.key,
                          held(shards, i.key).conflict, now)
                = <<held(shards, i.key).value, TRUE>>

C9_UpdateRoundTrip ==
    \A i \in Items :
        (fresh(i, now) /\ caseOf(shards, i.key, i.conflict) = "same")
            => /\ shardedUpdate(shards, i)[2]
               /\ shardedGet(shardedUpdate(shards, i)[1], i.key, i.conflict, now)
                    = <<i.value, TRUE>>

\* an Update of a held key under its conflict has run and reported true
C9_Witness ==
    /\ last.op = "Update"
    /\ last.case = "same"
    /\ last.ok

\* C10: Update of a key that is absent or held under another conflict returns
\* false and leaves the store unchanged.
C10_UpdateMissChangesNothing ==
    \A i \in Items :
        caseOf(shards, i.key, i.conflict) # "same"
            => /\ ~shardedUpdate(shards, i)[2]
               /\ shardedUpdate(shards, i)[1] = shards

\* an Update under another conflict has run and reported false
C10_Witness ==
    /\ last.op = "Update"
    /\ last.case = "collide"
    /\ ~last.ok

\* C11: Del(key, conflict) with conflict 0 or the stored conflict removes the
\* entry, giving back the stored conflict and value, and a Get under the stored
\* conflict then misses with (nil, false); Del of a key that is not in the store
\* changes nothing.
C11_DelRemoves ==
    \A k \in StoreKeys, c \in Conflicts :
        /\ caseOf(shards, k, c) = "absent"
            => shardedDel(shards, k, c)[1] = shards
        /\ (caseOf(shards, k, c) # "absent" /\ (c = 0 \/ c = held(shards, k).conflict))
            => /\ caseOf(shardedDel(shards, k, c)[1], k, c) = "absent"
               /\ shardedDel(shards, k, c)[2] = held(shards, k).conflict
               /\ shardedDel(shards, k, c)[3] = held(shards, k).value
               /\ shardedGet(shardedDel(shards, k, c)[1], k,
                             held(shards, k).conflict, now) = <<Nil, FALSE>>
               /\ \A j \in StoreKeys \ {k}, d \in Conflicts :
                    shardedGet(shardedDel(shards, k, c)[1], j, d, now)
                        = shardedGet(shards, j, d, now)

\* a Del with conflict 0 has removed an item held under a non-zero conflict
C11_Witness ==
    /\ last.op = "Del"
    /\ last.case = "collide"
    /\ last.ok
    /\ \E k \in StoreKeys : caseOf(shards, k, 0) = "absent"

\* C13: after Clear every Get misses with (nil, false), whatever was set before.
C13_ClearEmpties ==
    last.op = "Clear"
        => \A k \in StoreKeys, c \in Conflicts :
                shardedGet(shards, k, c, now) = <<Nil, FALSE>>

\* a Clear has run on a store that held items
C13_Witness ==
    /\ last.op = "Clear"
    /\ last.case = "held"

\* C12: Del(k) followed by Del(k) leaves the hash map and the policy as a
\* single Del(k) does, from any state, and a Del makes at most one OnEvict call
\* (none when the key is in neither).
C12_DelIdempotent ==
    /\ \A k \in CacheKeys :
          CacheDel(CacheDel(data, pmap, pused, k)[1],
                   CacheDel(data, pmap, pused, k)[2],
                   CacheDel(data, pmap, pused, k)[3], k)
            = CacheDel(data, pmap, pused, k)
    /\ \A p \in Procs : call[p].added = "none" => call[p].calls = <<>>
    /\ \A p \in Procs :
          (pc[p] = "DDel" /\ arg[p].key \notin DOMAIN data)
            => lockedMapDel(data, arg[p].key) = data

\* a Del is under way on a key that was set and deleted before
C12_Witness ==
    \E p \in Procs :
        /\ pc[p] = "DDel"
        /\ lastSet[arg[p].key] # Nil
        /\ arg[p].key \notin DOMAIN data
        /\ arg[p].key \notin DOMAIN pmap

\* C14: in a Set that the policy admits with victims, every step of the victim
\* loop deletes one victim from the hash map and calls OnEvict once for it, and
\* when the new value is written no victim is left: each has been deleted and
\* notified exactly once.
C14_VictimsBeforeStore ==
    [][\A p \in Procs :
        /\ (PolicyAdd(p) /\ call'[p].added = "yes")
            => /\ victims'[p] = call'[p].victims
               /\ call'[p].calls = <<>>
        /\ Evict(p)
            => /\ Head(victims[p]) \notin DOMAIN data'
               /\ call'[p].calls = Append(call[p].calls, Head(victims[p]))
        /\ Store(p)
            => /\ victims[p] = <<>>
               /\ call[p].added = "yes"
               /\ call[p].calls = call[p].victims
               /\ \A i, j \in 1..Len(call[p].calls) :
                    i # j => call[p].calls[i] # call[p].calls[j]
      ]_vars

\* a Set has written its value after deleting and notifying its victims
C14_Witness ==
    \E p \in Procs :
        /\ pc[p] = "Incr"
        /\ call[p].victims # <<>>
        /\ call[p].calls = call[p].victims

\* C15: no step of Cache.Del calls OnEvict, whether the key is present or not.
C15_DelNeverNotifies ==
    [][\A p \in Procs :
        ((\E k \in CacheKeys : DelCall(p, k)) \/ PolicyDel(p) \/ DataDel(p))
            => /\ call'[p] = NoCall
               /\ \A q \in Procs \ {p} : call'[q] = call[q]
      ]_vars

\* a Del has taken a key that is in the hash map out of the policy
C15_Witness ==
    \E p \in Procs :
        /\ pc[p] = "DDel"
        /\ arg[p].key \in DOMAIN data
        /\ arg[p].key \notin DOMAIN pmap

\* C16: when policy.Add does not admit the key, Set returns at once: the hash
\* map, the used counter and the policy are as they were, no victim is
\* deleted, OnEvict is not called and the key is not tracked.
C16_RejectedSetChangesNothing ==
    [][\A p \in Procs :
        (PolicyAdd(p) /\ call'[p].added = "no")
            => /\ pc'[p] = "idle"
               /\ data' = data
               /\ used' = used
               /\ pmap' = pmap
               /\ pused' = pused
               /\ victims'[p] = <<>>
               /\ call'[p].victims = <<>>
               /\ call'[p].calls = <<>>
               /\ arg[p].key \notin DOMAIN pmap'
      ]_vars

\* a Set has been turned down while the policy tracks another key
C16_Witness ==
    \E p \in Procs :
        /\ call[p].added = "no"
        /\ pc[p] = "idle"
        /\ pmap # newLockedMap

\* C17: with CleanUp run once in every bucket period, an item stored with
\* expiration t is out of the store by t plus two bucket widths.
C17_RemovedWithinTwoBuckets ==
    \A k \in ExpKeys :
        (caseOf(shards, k, 0) # "absent" /\ held(shards, k).expiration # NoExpiration)
            => now <= held(shards, k).expiration + 2 * bucketSizeSecs

\* C18: CleanUp detaches only the bucket before the current one, and every item
\* it deletes from the store has an expiration, one before the time of the sweep.
C18_SweepsOnlyExpired ==
    [][CleanUp =>
        /\ em' = cleanUpDetach(em, now)
        /\ \A k \in ExpKeys :
            (caseOf(shards, k, 0) # "absent" /\ caseOf(shards', k, 0) = "absent")
                => /\ held(shards, k).expiration # NoExpiration
                   /\ held(shards, k).expiration < now
      ]_vars

\* C19: for every key of the bucket it detaches, CleanUp deletes the key from
\* the store and from the policy and calls onEvict once: afterwards the key is
\* in neither and the policy's used is the sum of the costs still tracked.
C19_CleanUpDeletesEverywhere ==
    [][CleanUp =>
        \A k \in DOMAIN cleanUpKeys(em, now) :
            /\ caseOf(shards', k, 0) = "absent"
            /\ k \notin DOMAIN pmap'
            /\ pused' = SumCosts(pmap')
            /\ Cardinality({c \in onEvict' : c.key = k}) = 1
      ]_vars

\* C20: a stored key with an expiration is in exactly one bucket, the bucket of
\* that expiration; a stored key with the zero expiration is in no bucket.
C20_OneBucketPerKey ==
    \A k \in ExpKeys :
        caseOf(shards, k, 0) # "absent"
            => bucketsOf(em, k) =
                 IF held(shards, k).expiration = NoExpiration THEN {}
                 ELSE {timeToBucket(held(shards, k).expiration)}

\* C21: the lockedMap is safe for concurrent use.  In every interleaving of Get,
\* Set, Del and Run a goroutine inside a writing section holds the exclusive
\* lock and is alone inside, every goroutine inside a reading section holds the
\* shared lock, and the operations are linearizable: the map in memory is the
\* map of a store whose operations take effect one at a time, and every Get
\* returns what that store holds for its key.
C21_StoreConcurrencySafe ==
    /\ \A p \in writers : rwmu.w = p /\ (readers \cup writers) \ {p} = {}
    /\ \A p \in readers : p \in rwmu.r /\ rwmu.w = 0
    /\ lmap = amap
    /\ lres.op = "Get" => lres.val = lres.abs

\* a Get has returned a value written by a Set while another goroutine is
\* inside Run and holds the shared lock with it
C21_Witness ==
    /\ lres.op = "Get"
    /\ lres.val # Nil
    /\ \E p \in Procs : lpc[p] = "Run" /\ p \in rwmu.r
    /\ DOMAIN lmap = LockKeys

\* C23: Run(f) visits no key more than once, returns right after the first call
\* of f that returns false, and when f has returned true throughout it has
\* visited every key present in the store, each exactly once.
C23_RunVisitsOnce ==
    /\ \A p \in Procs : \A i, j \in 1..Len(lvis[p]) :
            i # j => lvis[p][i] # lvis[p][j]
    /\ lres.op = "Run" =>
         LET vis == lres.visited IN
         /\ \A i, j \in 1..Len(vis) : i # j => vis[i] # vis[j]
         /\ \A n \in 1..Len(vis) : vis[n] \in lres.present
         /\ \A n \in 1..Len(vis) : vis[n] \in lres.stop => n = Len(vis) /\ lres.stopped
         /\ lres.stopped => Len(vis) > 0 /\ vis[Len(vis)] \in lres.stop
         /\ ~lres.stopped => {vis[n] : n \in 1..Len(vis)} = lres.present

\* a Run over two keys has returned at its second key, where f returned false
C23_Witness ==
    /\ lres.op = "Run"
    /\ lres.stopped
    /\ Len(lres.visited) = 2
    /\ lres.present = LockKeys

\* C22: NewCache with an invalid configuration fails with the error kind of the
\* fault and builds no cache: a nil config gives NilConfig, NumCounters = 0 gives
\* NumCountersZero, MaxCost = 0 gives MaxCostZero, BufferItems = 0 gives
\* BufferItemsZero.
C22_InvalidConfigRejected ==
    built # NotBuilt =>
        /\ cfgIn = NilConfig => built = [kind |-> "error", err |-> "NilConfig"]
        /\ cfgIn # NilConfig =>
            /\ cfgIn.NumCounters = 0 =>
                    built = [kind |-> "error", err |-> "NumCountersZero"]
            /\ cfgIn.NumCounters # 0 /\ cfgIn.MaxCost = 0 =>
                    built = [kind |-> "error", err |-> "MaxCostZero"]
            /\ cfgIn.NumCounters # 0 /\ cfgIn.MaxCost # 0 /\ cfgIn.BufferItems = 0 =>
                    built = [kind |-> "error", err |-> "BufferItemsZero"]

\* C29: NewCache with MaxCost = 0 and NumCounters # 0 builds the cache with
\* MaxCost equal to NumCounters; a non-zero MaxCost is used as given.
C29_MaxCostDefaultsToNumCounters ==
    built.kind = "cache" =>
        /\ cfgIn.MaxCost = 0 /\ cfgIn.NumCounters # 0 =>
                /\ built.policyMaxCost = cfgIn.NumCounters
                /\ config.MaxCost = cfgIn.NumCounters
        /\ cfgIn.MaxCost # 0 =>
                /\ built.policyMaxCost = cfgIn.MaxCost
                /\ config.MaxCost = cfgIn.MaxCost

\* a cache was built from a Config with NumCounters 2 and no MaxCost
C29_Witness ==
    /\ built.kind = "cache"
    /\ cfgIn.MaxCost = 0
    /\ cfgIn.NumCounters = 2
    /\ built.policyMaxCost = 2

\* C24: MergeAndCheckDefault never overwrites an option the user supplied.  After
\* a merge every key of the user's flag keeps the user's value, every key that
\* only the defaults have takes the default value, and the keys are those of the
\* two flags in lower case with "-" for "_".
C24_MergeKeepsUserOptions ==
    (fcall.op = "merge" /\ fcall.out = "ok") =>
        /\ DOMAIN sf.m = DOMAIN fcall.user \cup DOMAIN fcall.def
        /\ \A k \in DOMAIN fcall.user : sf.m[k] = fcall.user[k]
        /\ \A k \in DOMAIN fcall.def \ DOMAIN fcall.user : sf.m[k] = fcall.def[k]
        /\ \A k \in DOMAIN sf.m : \A n \in 1..Len(k) : k[n] \notin {"A", "B", "_", " "}

\* a merge has kept the user's value of a key for which the defaults have another
\* value, and has taken a key that only the defaults have
C24_Witness ==
    /\ fcall.op = "merge"
    /\ fcall.out = "ok"
    /\ \E k \in DOMAIN fcall.user \cap DOMAIN fcall.def :
            fcall.user[k] # fcall.def[k] /\ sf.m[k] = fcall.user[k]
    /\ \E k \in DOMAIN fcall.def \ DOMAIN fcall.user : sf.m[k] = fcall.def[k]
    /\ <<"a", "-", "b">> \in DOMAIN fcall.user

\* C25: invalid flag input is reported as an error, neither accepted nor left to
\* crash: a merge of a user flag that has a key absent from the defaults gives
\* an error, and parsing a flag with an entry that has a key and no "=value"
\* gives an error.
C25_InvalidFlagIsAnError ==
    /\ (fcall.op = "merge" /\ ~fcall.bare /\ ~(DOMAIN fcall.user \subseteq DOMAIN fcall.def))
            => fcall.out = "error"
    /\ (fcall.op = "new" /\ fcall.bare) => fcall.out = "error"

\* C26: Cache.used stays within 0..size in every reachable state, under any
\* sequence and interleaving of Set calls: it never wraps below zero and never
\* exceeds size.
C26_UsedWithinSize == 0 <= used /\ used <= NumCounters

\* C27: the bucket of an instant is floor(epoch_seconds / 5).  Two instants have
\* the same bucket if and only if they lie in the same 5-second window of
\* absolute time, and the bucket never decreases as time advances.
C27_BucketIsEpochWindow ==
    /\ timeToBucket(now) = now \div bucketSizeSecs
    /\ \A t \in 0..now :
        /\ timeToBucket(t) <= timeToBucket(now)
        /\ timeToBucket(t) = timeToBucket(now)
                <=> t \div bucketSizeSecs = now \div bucketSizeSecs

\* C28: CleanUp holds the expiration map's lock only while it reads and detaches
\* the target bucket.  Every store deletion and onEvict call is made with the
\* lock released, so that the lock is free whenever only per-key work is going
\* on and an Add or Delete can go ahead; and a detached bucket is processed only
\* by the CleanUp that detached it: no entry is processed twice, and an entry
\* held by one CleanUp is neither held by another nor still in the map.
C28_LockOnlyToDetach ==
    /\ \A c \in scalls : ~c.locked
    /\ \A p \in Procs : spc[p] = "Keys" => emu # p
    /\ (\A p \in Procs : spc[p] \in {"idle", "Keys"}) => emu = 0
    /\ \A c, d \in scalls : (c.key = d.key /\ c.conflict = d.conflict) => c = d
    /\ \A p \in Procs : \A k \in DOMAIN skeys[p] :
        /\ \A q \in Procs \ {p} : k \in DOMAIN skeys[q] => skeys[q][k] # skeys[p][k]
        /\ \A b \in DOMAIN em : k \in DOMAIN em[b] => em[b][k] # skeys[p][k]

\* a CleanUp has detached a bucket of two keys and done the per-key work of one
\* of them while another goroutine holds the lock inside Add
C28_Witness ==
    \E p, q \in Procs :
        /\ spc[p] = "Keys"
        /\ DOMAIN skeys[p] # {}
        /\ \E c \in scalls : c.by = p /\ c.bucketNum = sarg[p].bucketNum
        /\ spc[q] = "Add"
        /\ emu = q
====
